---- MODULE Spec2Model ----
(***************************************************************************)
(* Model of klyppr-desktop's silence-removal pipeline (src/main.js, the    *)
(* current main process): the segment calculation, the silence-detection   *)
(* stderr handler, the filter-script builder, the progress handlers and    *)
(* the 'start-processing' / 'cancel-processing' IPC handlers with the      *)
(* external ffmpeg processes they launch.                                  *)
(*                                                                         *)
(* Times are JavaScript numbers (seconds) in the source.  The model counts *)
(* them in hundredths of a second, so 0.05 s is 5 and 2.03 s is 203; on    *)
(* that grid the source's additions, subtractions and comparisons are      *)
(* exact.                                                                  *)
(***************************************************************************)
EXTENDS Integers, Sequences, FiniteSets, TLC

VARIABLES
    \* ---- module state of main.js ----
    isCancelled,            \* let isCancelled (line 48)
    currentFFmpegProcess,   \* let currentFFmpegProcess (line 47): 0 is null, else the job whose process it is
    \* ---- one 'start-processing' invocation per job ----
    pc,                     \* where the async handler of the job is suspended
    normalizeAudio,         \* params.normalizeAudio
    hasAudio,               \* the input file of the job has an audio stream
    proc,                   \* the job's external process: "none", "running", "killed"
    stderrScript,           \* the stderr lines the detection process will print
    stderrPos,              \* how many of them were delivered
    startTime,              \* detectSilence's let startTime (line 502)
    silenceRanges,          \* detectSilence's const silenceRanges (line 501)
    thrown,                 \* the error travelling through processVideo's finally
    result,                 \* the 'completed' reply of the job
    progress,               \* the last sample sent on the 'progress' channel
    \* ---- file system ----
    tempDir,                \* <output folder>/.klyppr_temp: "absent", "empty", "script"
    outputFile,             \* the job's processed_<name>: "absent", "partial", "complete"
    \* ---- history (not in the source) ----
    cancelRequested,        \* a 'cancel-processing' arrived while the job was active
    builtRanges,            \* the talkingRanges buildFilterScript was called with
    encodedRanges,          \* the talkingRanges whose script an encode process was spawned on
    removeFailed,           \* fs.remove(tempDir) threw for this job
    overlapped,             \* another job was active at some time while this one was
    history,                \* what the job did so far, in order: processes spawned, their
                            \* terminal events, file operations, 'completed' replies
    \* ---- the pure functions, called on drawn inputs ----
    inRanges, inDuration, outRanges, called,
    \* ---- the detection stderr handler, fed line by line ----
    dPadding, dStartTime, dRanges, dLine, dPrev, dCount,
    dLines,                 \* all the lines delivered so far, in order
    \* ---- the filter-script builder and the encode invocation that reads it ----
    fTalkingRanges,         \* buildFilterScript's talkingRanges
    fNormalizeAudio,        \* buildFilterScript's normalizeAudio
    filterGraph,            \* the script buildFilterScript returned
    outputOptions,          \* the pads processVideoWithFilter's '-map' options name
    fpc,                    \* "idle", "built", "encoding"
    \* ---- the 'progress' handlers, fed event by event ----
    pgPhase,                \* "encode" (processVideoWithFilter) or "normalize" (normalizeAudioOnly)
    pgRanges, pgDuration,   \* the silenceRanges and inputDuration of the job
    pgCancelled,            \* isCancelled while the events arrive
    pgEvent,                \* the last 'progress' event of the engine
    pgNow,                  \* Date.now() at that event, in ms
    pgSent,                 \* the samples replied on 'progress' so far, with their times
    pgCount                 \* how many events arrived

jobVars == <<pc, normalizeAudio, proc, stderrScript, stderrPos, startTime,
             silenceRanges, thrown, result, progress>>
ctlVars == <<isCancelled, currentFFmpegProcess, jobVars, tempDir, outputFile,
             cancelRequested, builtRanges, encodedRanges, removeFailed,
             hasAudio, overlapped, history>>
pureVars == <<inRanges, inDuration, outRanges, called>>
detVars == <<dPadding, dStartTime, dRanges, dLine, dPrev, dCount, dLines>>
filVars == <<fTalkingRanges, fNormalizeAudio, filterGraph, outputOptions, fpc>>
pgVars == <<pgPhase, pgRanges, pgDuration, pgCancelled, pgEvent, pgNow, pgSent, pgCount>>
vars == <<ctlVars, pureVars, detVars, filVars, pgVars>>

(***************************************************************************)
(* Constants of the source and bounds of the model.                        *)
(***************************************************************************)
MIN_SEGMENT_DURATION == 5

\* Longest silence list handed to calculateTalkingRanges.
MaxSilences == 3
\* Most stderr lines fed to the detection handler.
MaxLines == 4

\* A JavaScript value that may be null: <<>> is null, <<v>> is the value v.
None == <<>>
Some(v) == <<v>>

RECURSIVE SumSeq(_)
SumSeq(s) == IF s = <<>> THEN 0 ELSE Head(s) + SumSeq(Tail(s))

(***************************************************************************)
(* SEGMENT CALCULATION                                                     *)
(***************************************************************************)
\* Mutant: prevEnd is never advanced past a silence range.
AdvancePrevEnd_Stuck(prevEnd, range) == prevEnd

\* prevEnd = range.end
AdvancePrevEnd(prevEnd, range) == range.end

\* Mutant: the kept range runs to the end of the silence, not to its start.
KeepBefore_ToEnd(prevEnd, range) ==
    IF prevEnd < range.start /\ range.start - prevEnd > MIN_SEGMENT_DURATION
    THEN <<[start |-> prevEnd, end |-> range.end]>>
    ELSE <<>>

\* Mutant: the range before a silence is kept whatever its length.
KeepBefore_NoThreshold(prevEnd, range) ==
    IF prevEnd < range.start
    THEN <<[start |-> prevEnd, end |-> range.start]>>
    ELSE <<>>

\* if (prevEnd < range.start) { if (range.start - prevEnd > MIN) push }
KeepBefore(prevEnd, range) ==
    IF prevEnd < range.start /\ range.start - prevEnd > MIN_SEGMENT_DURATION
    THEN <<[start |-> prevEnd, end |-> range.start]>>
    ELSE <<>>

\* Mutant: the trailing range is kept whatever its length.
KeepTail_NoThreshold(prevEnd, videoDuration) ==
    IF prevEnd < videoDuration
    THEN <<[start |-> prevEnd, end |-> videoDuration]>>
    ELSE <<>>

\* if (prevEnd < videoDuration) { if (videoDuration - prevEnd > MIN) push }
KeepTail(prevEnd, videoDuration) ==
    IF prevEnd < videoDuration /\ videoDuration - prevEnd > MIN_SEGMENT_DURATION
    THEN <<[start |-> prevEnd, end |-> videoDuration]>>
    ELSE <<>>

RECURSIVE TalkingLoop(_, _, _, _, _)
TalkingLoop(ranges, i, prevEnd, talkingRanges, videoDuration) ==
    IF i > Len(ranges)
    THEN talkingRanges \o KeepTail(prevEnd, videoDuration)
    ELSE TalkingLoop(ranges, i + 1, AdvancePrevEnd(prevEnd, ranges[i]),
                     talkingRanges \o KeepBefore(prevEnd, ranges[i]), videoDuration)

\* Mutant: with no silence at all nothing is kept.
calculateTalkingRanges_NoneWhenEmpty(ranges, videoDuration) ==
    IF ranges = <<>> THEN <<>> ELSE TalkingLoop(ranges, 1, 0, <<>>, videoDuration)

calculateTalkingRanges(ranges, videoDuration) ==
    TalkingLoop(ranges, 1, 0, <<>>, videoDuration)

\* Mutant: a range's duration is taken as its end.
RangeDuration_EndOnly(range) == range.end

RangeDuration(range) == range.end - range.start

calculateDurationStats(ranges, inputDuration) ==
    LET totalSilenceDuration == SumSeq([i \in 1..Len(ranges) |-> RangeDuration(ranges[i])])
    IN  [inputDuration |-> inputDuration,
         totalSilenceDuration |-> totalSilenceDuration,
         expectedOutputDuration |-> inputDuration - totalSilenceDuration]

(***************************************************************************)
(* SILENCE DETECTION: the stderr handler of detectSilence                  *)
(*                                                                         *)
(* A stderr line is modelled by the text that follows each marker in it:   *)
(* None when the marker is absent, Some(t) when the number t follows it.   *)
(* The pattern ([\d.]+) matches no sign, so a negative number after a     *)
(* marker matches nothing.                                                 *)
(***************************************************************************)
MatchNumber(text) == IF text = None \/ text[1] < 0 THEN None ELSE text

parseSilenceLine(line) ==
    [start |-> MatchNumber(line.silence_start),
     end   |-> MatchNumber(line.silence_end)]

\* Mutant: the padding is not taken off the end of the silence.
processSilenceRange_EndUnpadded(start, end, paddingDuration) ==
    [adjustedStart |-> start + paddingDuration,
     adjustedEnd   |-> end,
     duration      |-> end - (start + paddingDuration)]

\* Mutant: the padding widens the silence instead of narrowing it.
processSilenceRange_PadOutwards(start, end, paddingDuration) ==
    [adjustedStart |-> start - paddingDuration,
     adjustedEnd   |-> end + paddingDuration,
     duration      |-> (end + paddingDuration) - (start - paddingDuration)]

processSilenceRange(start, end, paddingDuration) ==
    LET adjustedStart == start + paddingDuration
        adjustedEnd   == end - paddingDuration
    IN  [adjustedStart |-> adjustedStart,
         adjustedEnd   |-> adjustedEnd,
         duration      |-> adjustedEnd - adjustedStart]

\* Mutant: a start is taken only when none is pending (the first start wins).
StderrHandler_FirstStartWins(st, line, paddingDur) ==
    LET parsed == parseSilenceLine(line)
        st1 == IF parsed.start # None /\ st.startTime = None
               THEN parsed.start ELSE st.startTime
    IN  IF parsed.end # None /\ st1 # None
        THEN LET r == processSilenceRange(st1[1], parsed.end[1], paddingDur)
             IN  [startTime |-> None,
                  silenceRanges |->
                      IF r.duration > MIN_SEGMENT_DURATION
                      THEN Append(st.silenceRanges,
                                  [start |-> r.adjustedStart, end |-> r.adjustedEnd])
                      ELSE st.silenceRanges]
        ELSE [startTime |-> st1, silenceRanges |-> st.silenceRanges]

\* Mutant: an end with no start pending counts the silence from 0.
StderrHandler_EndFromZero(st, line, paddingDur) ==
    LET parsed == parseSilenceLine(line)
        st1 == IF parsed.start # None THEN parsed.start ELSE st.startTime
        s == IF st1 # None THEN st1 ELSE Some(0)
    IN  IF parsed.end # None
        THEN LET r == processSilenceRange(s[1], parsed.end[1], paddingDur)
             IN  [startTime |-> None,
                  silenceRanges |->
                      IF r.duration > MIN_SEGMENT_DURATION
                      THEN Append(st.silenceRanges,
                                  [start |-> r.adjustedStart, end |-> r.adjustedEnd])
                      ELSE st.silenceRanges]
        ELSE [startTime |-> st1, silenceRanges |-> st.silenceRanges]

\* .on('stderr', line => ...): st is the closure state [startTime, silenceRanges].
StderrHandler(st, line, paddingDur) ==
    LET parsed == parseSilenceLine(line)
        st1 == IF parsed.start # None THEN parsed.start ELSE st.startTime
    IN  IF parsed.end # None /\ st1 # None
        THEN LET r == processSilenceRange(st1[1], parsed.end[1], paddingDur)
             IN  [startTime |-> None,
                  silenceRanges |->
                      IF r.duration > MIN_SEGMENT_DURATION
                      THEN Append(st.silenceRanges,
                                  [start |-> r.adjustedStart, end |-> r.adjustedEnd])
                      ELSE st.silenceRanges]
        ELSE [startTime |-> st1, silenceRanges |-> st.silenceRanges]

StartLine(t) == [silence_start |-> Some(t), silence_end |-> None]
EndLine(t)   == [silence_start |-> None, silence_end |-> Some(t)]
OtherLine    == [silence_start |-> None, silence_end |-> None]

(***************************************************************************)
(* PROGRESS: the percent computed by the 'progress' handlers               *)
(***************************************************************************)
Min(a, b) == IF a < b THEN a ELSE b

\* Math.round(n / d) for d > 0: a half rounds towards +Infinity.
RoundDiv(n, d) == (2 * n + d) \div (2 * d)

\* The percent that is NaN (0 / 0), which is no number of the model.
NaN == 0 - 1000

NoTimemark    == [kind |-> "none", t |-> 0]          \* progress.timemark is missing
BadTimemark   == [kind |-> "unparseable", t |-> 0]   \* e.g. "N/A": split(':') gives 1 part
Timemark(t)   == [kind |-> "time", t |-> t]          \* HH:MM:SS.ff, t hundredths in all

\* let percent = 0, kept when there is no parseable time marker
NoMarkPercent == 0

\* processVideoWithFilter's progress handler, lines 380-387.
EncodePercent(timemark, expectedDuration) ==
    IF timemark.kind # "time"
    THEN NoMarkPercent
    ELSE LET currentTime == timemark.t
         IN  IF expectedDuration > 0
             THEN Min(99, RoundDiv(currentTime * 100, expectedDuration))
             ELSE IF expectedDuration < 0
             THEN Min(99, RoundDiv(0 - currentTime * 100, 0 - expectedDuration))
             ELSE IF currentTime > 0 THEN 99 ELSE NaN

\* normalizeAudioOnly's progress handler, lines 442-445: pv is progress.percent,
\* None when it is no number; the result is None when nothing is sent.
NormalizePercent(pv) ==
    IF pv # None /\ pv[1] >= 0 /\ pv[1] <= 100
    THEN Some(Min(100, 50 + pv[1] \div 2))
    ELSE None

(***************************************************************************)
(* FILTER SCRIPT GENERATION (trim/atrim + concat)                          *)
(*                                                                         *)
(* The script is a text of filter chains separated by ';'.  The model      *)
(* keeps it as the sequence of those chains: the pads a chain reads, its   *)
(* filters with their options, and the pads it writes.  In this section    *)
(* times are counted in 1/100000 s, so that toFixed(4) has a fifth decimal *)
(* to round; what it prints is counted in 1/10000 s.                       *)
(***************************************************************************)
Pad(name) == [name |-> name, index |-> None]                \* [outv], [0:v], ...
IndexedPad(name, i) == [name |-> name, index |-> Some(i)]   \* [v${i}], [a${i}]

\* x.toFixed(4): the nearest multiple of 0.0001.
toFixed4(x) ==
    IF x >= 0 THEN (x + 5) \div 10 ELSE 0 - ((5 - x) \div 10)

\* The text between two ';' that holds no filter: what join(';') of no part
\* leaves before the ';' that follows it.
EmptyChain == [ins |-> <<>>, filters |-> <<>>, outs |-> <<>>]

FilterPart_PadZero(r, i) ==
    << [ins |-> <<Pad("0:v")>>,
        filters |-> << [name |-> "trim", start |-> toFixed4(r.start), end |-> toFixed4(r.end)],
                       [name |-> "setpts", expr |-> "PTS-STARTPTS"] >>,
        outs |-> <<IndexedPad("v", 0)>>],
       [ins |-> <<Pad("0:a")>>,
        filters |-> << [name |-> "atrim", start |-> toFixed4(r.start), end |-> toFixed4(r.end)],
                       [name |-> "asetpts", expr |-> "PTS-STARTPTS"] >>,
        outs |-> <<IndexedPad("a", 0)>>] >>

\* One element of filterParts, lines 317-318: the video chain and the audio
\* chain of talking range r at index i.
FilterPart(r, i) ==
    << [ins |-> <<Pad("0:v")>>,
        filters |-> << [name |-> "trim", start |-> toFixed4(r.start), end |-> toFixed4(r.end)],
                       [name |-> "setpts", expr |-> "PTS-STARTPTS"] >>,
        outs |-> <<IndexedPad("v", i)>>],
       [ins |-> <<Pad("0:a")>>,
        filters |-> << [name |-> "atrim", start |-> toFixed4(r.start), end |-> toFixed4(r.end)],
                       [name |-> "asetpts", expr |-> "PTS-STARTPTS"] >>,
        outs |-> <<IndexedPad("a", i)>>] >>

\* filterParts.join(';')
RECURSIVE JoinParts(_)
JoinParts(parts) ==
    IF parts = <<>> THEN <<>>
    ELSE Head(parts) \o JoinParts(Tail(parts))

\* talkingRanges.map((_, i) => `[v${i}][a${i}]`).join('')
ConcatInputs(n) ==
    [k \in 1..(2 * n) |-> IF k % 2 = 1 THEN IndexedPad("v", (k - 1) \div 2)
                                      ELSE IndexedPad("a", (k - 1) \div 2)]

NormalizeStage_OnVideo(concat) ==
    << [concat EXCEPT !.outs = <<Pad("tmpv"), Pad("tmpa")>>],
       [ins |-> <<Pad("tmpv")>>,
        filters |-> <<[name |-> "loudnorm", I |-> 0 - 16, TP |-> 0 - 15, LRA |-> 11]>>,
        outs |-> <<Pad("outv")>>],
       [ins |-> <<Pad("tmpa")>>, filters |-> <<[name |-> "copy"]>>, outs |-> <<Pad("outa")>>] >>

\* Line 328: the concat writes [tmpv][tmpa], copy takes [tmpv] to [outv] and
\* loudnorm=I=-16:TP=-1.5:LRA=11 (TP in tenths) takes [tmpa] to [outa].
NormalizeStage(concat) ==
    << [concat EXCEPT !.outs = <<Pad("tmpv"), Pad("tmpa")>>],
       [ins |-> <<Pad("tmpv")>>, filters |-> <<[name |-> "copy"]>>, outs |-> <<Pad("outv")>>],
       [ins |-> <<Pad("tmpa")>>,
        filters |-> <<[name |-> "loudnorm", I |-> 0 - 16, TP |-> 0 - 15, LRA |-> 11]>>,
        outs |-> <<Pad("outa")>>] >>

\* Line 330: the concat writes [outv][outa].
PlainStage(concat) ==
    << [concat EXCEPT !.outs = <<Pad("outv"), Pad("outa")>>] >>

buildFilterScript(talkingRanges, normalizeAudio_) ==
    LET filterParts == [i \in 1..Len(talkingRanges) |-> FilterPart(talkingRanges[i], i - 1)]
        joined == IF filterParts = <<>> THEN <<EmptyChain>> ELSE JoinParts(filterParts)
        concat == [ins |-> ConcatInputs(Len(talkingRanges)),
                   filters |-> <<[name |-> "concat", n |-> Len(talkingRanges), v |-> 1, a |-> 1]>>,
                   outs |-> <<>>]
    IN  IF normalizeAudio_
        THEN joined \o NormalizeStage(concat)
        ELSE joined \o PlainStage(concat)

OutputMaps_Intermediate == <<Pad("tmpv"), Pad("tmpa")>>

\* processVideoWithFilter's outputOptions, lines 353-354: '-map', '[outv]',
\* '-map', '[outa]'.
OutputMaps == <<Pad("outv"), Pad("outa")>>

(***************************************************************************)
(* THE JOB: 'start-processing', 'cancel-processing' and the events of the  *)
(* external processes.  Node runs one handler at a time, so each action is *)
(* one handler together with the promise continuations it releases, up to  *)
(* the next await on an external event.                                    *)
(***************************************************************************)
Jobs == {1, 2}

\* metadata.format.duration of the input (one second).
VideoDuration == 100
\* params.paddingDuration, the renderer's default.
PaddingDuration == 5

\* What the detection process prints: nothing, one silence over the whole
\* input, two silences with a stretch of sound between them.
StderrScripts ==
    { <<>>,
      <<StartLine(0), EndLine(VideoDuration)>>,
      <<StartLine(0), EndLine(50), StartLine(60), EndLine(VideoDuration)>> }

\* The inputs a job is started on: one with an audio stream prints any of the
\* scripts; one without has no audio for silencedetect to report on.
Inputs ==
    [hasAudio : {TRUE}, stderr : StderrScripts] \cup [hasAudio : {FALSE}, stderr : {<<>>}]

EngineError     == "ffmpeg exited with code 1"
EngineErrorPath == "ffmpeg exited with code 1: cancelled_take.mp4: Invalid data"
CancelError     == "Processing cancelled"
FsError         == "ENOENT: no such file or directory"
ProbeError      == "ffprobe exited with code 1"
EngineErrors    == {EngineError, EngineErrorPath}

\* error.message.includes('cancelled')
MessageIncludesCancelled(error) == error \in {CancelError, EngineErrorPath}

EncodeTimemarks == {NoTimemark, BadTimemark, Timemark(20), Timemark(50)}
EnginePercents  == {None, Some(20), Some(100), Some(150)}

Active(j) == pc[j] \notin {"idle", "done"}

\* The catch of 'start-processing', lines 697-706.
CatchResult(cancelled, error) ==
    IF cancelled \/ MessageIncludesCancelled(error) THEN "cancelled" ELSE "error"

\* Mutant: the handle is left as it is.
clearActiveProcess_Keep == currentFFmpegProcess

\* clearActiveProcess(): whichever job's process the handle names.
clearActiveProcess == 0

\* Mutant: 'start-processing' leaves the flag as it finds it.
ResetCancelFlag_Keep == isCancelled

\* isCancelled = false, line 653.
ResetCancelFlag == FALSE

\* Mutant: the flag is not read before the process is spawned.
CancelledAtSpawn_Unchecked == FALSE

\* if (isCancelled) return reject(new Error('Processing cancelled')): the
\* first statement of the promise executor, lines 348, 423 and 499.
CancelledAtSpawn == isCancelled

\* Mutant: the promise is resolved while the process is still printing.
DetectionOver_Early(j) == TRUE

\* The detection process emits 'end' once it has exited and all it printed
\* has been delivered to the stderr handler.
DetectionOver(j) == stderrPos[j] = Len(stderrScript[j])

\* What detectSilence resolves with for a process that prints the lines of
\* script: the stderr handler run over them from an empty list.
RECURSIVE DetectFrom(_, _, _)
DetectFrom(st, script, paddingDur) ==
    IF script = <<>> THEN st.silenceRanges
    ELSE DetectFrom(StderrHandler(st, Head(script), paddingDur), Tail(script), paddingDur)

detectSilence(script, paddingDur) ==
    DetectFrom([startTime |-> None, silenceRanges |-> <<>>], script, paddingDur)

\* Mutant: the no-silence branch is never taken.
NoSilenceFound_Never(ranges) == FALSE

\* if (silenceRanges.length === 0), line 671
NoSilenceFound(ranges) == ranges = <<>>

\* The job's history with the events evs appended.
Logged(j, evs) == [history EXCEPT ![j] = @ \o evs]

InitCtl ==
    /\ isCancelled = FALSE
    /\ currentFFmpegProcess = 0
    /\ pc = [j \in Jobs |-> "idle"]
    /\ normalizeAudio = [j \in Jobs |-> FALSE]
    /\ proc = [j \in Jobs |-> "none"]
    /\ stderrScript = [j \in Jobs |-> <<>>]
    /\ stderrPos = [j \in Jobs |-> 0]
    /\ startTime = [j \in Jobs |-> None]
    /\ silenceRanges = [j \in Jobs |-> <<>>]
    /\ thrown = [j \in Jobs |-> None]
    /\ result = [j \in Jobs |-> "none"]
    /\ progress = [j \in Jobs |-> [phase |-> "none", percent |-> 0]]
    /\ tempDir = "absent"
    /\ outputFile = [j \in Jobs |-> "absent"]
    /\ cancelRequested = [j \in Jobs |-> FALSE]
    /\ builtRanges = [j \in Jobs |-> None]
    /\ encodedRanges = [j \in Jobs |-> None]
    /\ removeFailed = [j \in Jobs |-> FALSE]
    /\ hasAudio = [j \in Jobs |-> TRUE]
    /\ overlapped = [j \in Jobs |-> FALSE]
    /\ history = [j \in Jobs |-> <<>>]

\* ipcMain.on('start-processing'), lines 652-664, into detectSilence up to
\* setActiveProcess(cmd).  isCancelled was just reset, so line 499 passes.
StartProcessing(j) ==
    /\ pc[j] = "idle"
    /\ \A k \in Jobs : k < j => pc[k] # "idle"
    /\ \E n \in BOOLEAN, input \in Inputs :
          /\ normalizeAudio' = [normalizeAudio EXCEPT ![j] = n]
          /\ hasAudio' = [hasAudio EXCEPT ![j] = input.hasAudio]
          /\ stderrScript' = [stderrScript EXCEPT ![j] = input.stderr]
    /\ overlapped' = [k \in Jobs |->
                         IF k = j THEN \E i \in Jobs : Active(i)
                         ELSE overlapped[k] \/ Active(k)]
    /\ history' = Logged(j, <<"spawn:detect">>)
    /\ isCancelled' = ResetCancelFlag
    /\ currentFFmpegProcess' = j
    /\ proc' = [proc EXCEPT ![j] = "running"]
    /\ pc' = [pc EXCEPT ![j] = "detecting"]
    /\ progress' = [progress EXCEPT ![j] = [phase |-> "detect", percent |-> 0]]
    /\ UNCHANGED <<stderrPos, startTime, silenceRanges, thrown, result, tempDir,
                   outputFile, cancelRequested, builtRanges, encodedRanges, removeFailed>>
    /\ UNCHANGED <<pureVars, detVars, filVars, pgVars>>

\* ipcMain.on('cancel-processing') -> cancelActiveProcess(), lines 58-66.
CancelProcessing ==
    /\ isCancelled' = TRUE
    /\ IF currentFFmpegProcess # 0
       THEN /\ proc' = [proc EXCEPT ![currentFFmpegProcess] =
                            IF @ = "running" THEN "killed" ELSE @]
            /\ currentFFmpegProcess' = clearActiveProcess
       ELSE UNCHANGED <<proc, currentFFmpegProcess>>
    /\ cancelRequested' = [j \in Jobs |-> cancelRequested[j] \/ Active(j)]
    /\ UNCHANGED <<pc, normalizeAudio, stderrScript, stderrPos, startTime, silenceRanges,
                   thrown, result, progress, tempDir, outputFile, builtRanges,
                   encodedRanges, removeFailed>>
    /\ UNCHANGED <<hasAudio, overlapped, history, pureVars, detVars, filVars, pgVars>>

\* detectSilence's .on('stderr'), lines 514-536.  Lines already written by a
\* killed process are still delivered.
DetectStderr(j) ==
    /\ pc[j] = "detecting"
    /\ proc[j] # "none"
    /\ stderrPos[j] < Len(stderrScript[j])
    /\ LET st == StderrHandler([startTime |-> startTime[j],
                                silenceRanges |-> silenceRanges[j]],
                               stderrScript[j][stderrPos[j] + 1], PaddingDuration)
       IN  /\ startTime' = [startTime EXCEPT ![j] = st.startTime]
           /\ silenceRanges' = [silenceRanges EXCEPT ![j] = st.silenceRanges]
    /\ stderrPos' = [stderrPos EXCEPT ![j] = @ + 1]
    /\ UNCHANGED <<isCancelled, currentFFmpegProcess, pc, normalizeAudio, proc,
                   stderrScript, thrown, result, progress, tempDir, outputFile,
                   cancelRequested, builtRanges, encodedRanges, removeFailed>>
    /\ UNCHANGED <<hasAudio, overlapped, history, pureVars, detVars, filVars, pgVars>>

\* Mutant: on a cancelled job the 'end' handler returns without settling the
\* promise, as the 'progress' handlers do, and the job waits for ever.
DetectEnd_SwallowsCancel(j) ==
    /\ pc[j] = "detecting"
    /\ proc[j] # "none"
    /\ DetectionOver(j)
    /\ isCancelled
    /\ proc' = [proc EXCEPT ![j] = "none"]
    /\ pc' = [pc EXCEPT ![j] = "hung"]
    /\ UNCHANGED <<isCancelled, currentFFmpegProcess, normalizeAudio, stderrScript,
                   stderrPos, startTime, silenceRanges, thrown, result, progress,
                   tempDir, outputFile, cancelRequested, builtRanges, encodedRanges,
                   removeFailed>>
    /\ UNCHANGED <<hasAudio, overlapped, history, pureVars, detVars, filVars, pgVars>>

\* detectSilence's .on('end'), lines 537-542, then 'start-processing' from
\* line 666 to its next await (or its catch).  A process that had already
\* exited when the signal was sent still delivers 'end'.
DetectEnd(j) ==
    /\ pc[j] = "detecting"
    /\ proc[j] # "none"
    /\ DetectionOver(j)
    /\ IF isCancelled
       THEN \* reject(new Error('Processing cancelled')) -> catch
            /\ result' = [result EXCEPT ![j] = CatchResult(isCancelled, CancelError)]
            /\ pc' = [pc EXCEPT ![j] = "done"]
            /\ proc' = [proc EXCEPT ![j] = "none"]
            /\ history' = Logged(j, <<"completed">>)
            /\ UNCHANGED <<currentFFmpegProcess, progress>>
       ELSE IF NoSilenceFound(silenceRanges[j])
       THEN \* lines 671-680
            /\ progress' = [progress EXCEPT ![j] = [phase |-> "nosilence", percent |-> 50]]
            /\ IF normalizeAudio[j]
               THEN \* normalizeAudioOnly: line 423 passes, spawn, setActiveProcess
                    /\ pc' = [pc EXCEPT ![j] = "normalizing"]
                    /\ proc' = [proc EXCEPT ![j] = "running"]
                    /\ currentFFmpegProcess' = j
                    /\ history' = Logged(j, <<"end:detect", "spawn:normalize">>)
               ELSE \* await fs.copyFile(...)
                    /\ pc' = [pc EXCEPT ![j] = "copying"]
                    /\ proc' = [proc EXCEPT ![j] = "none"]
                    /\ currentFFmpegProcess' = clearActiveProcess
                    /\ history' = Logged(j, <<"end:detect", "copy">>)
            /\ UNCHANGED result
       ELSE \* line 687, then processVideo up to await getVideoMetadata
            /\ progress' = [progress EXCEPT ![j] = [phase |-> "encode", percent |-> 0]]
            /\ pc' = [pc EXCEPT ![j] = "probing"]
            /\ proc' = [proc EXCEPT ![j] = "none"]
            /\ currentFFmpegProcess' = clearActiveProcess
            /\ history' = Logged(j, <<"end:detect", "probe">>)
            /\ UNCHANGED result
    /\ UNCHANGED <<isCancelled, normalizeAudio, stderrScript, stderrPos, startTime,
                   silenceRanges, thrown, tempDir, outputFile, cancelRequested,
                   builtRanges, encodedRanges, removeFailed>>
    /\ UNCHANGED <<hasAudio, overlapped, pureVars, detVars, filVars, pgVars>>

\* Mutant: the 'error' handler resolves with the ranges gathered so far, and
\* the job goes on to processVideo with them.
DetectError_Resolves(j) ==
    /\ pc[j] = "detecting"
    /\ proc[j] # "none"
    /\ proc' = [proc EXCEPT ![j] = "none"]
    /\ currentFFmpegProcess' = clearActiveProcess
    /\ pc' = [pc EXCEPT ![j] = "probing"]
    /\ history' = Logged(j, <<"error:detect", "probe">>)
    /\ UNCHANGED <<isCancelled, normalizeAudio, stderrScript, stderrPos, startTime,
                   silenceRanges, thrown, result, progress, tempDir, outputFile,
                   cancelRequested, builtRanges, encodedRanges, removeFailed>>
    /\ UNCHANGED <<hasAudio, overlapped, pureVars, detVars, filVars, pgVars>>

\* detectSilence's .on('error'), lines 543-547, then the catch.
DetectError(j) ==
    /\ pc[j] = "detecting"
    /\ proc[j] # "none"
    /\ \E err \in EngineErrors :
          result' = [result EXCEPT ![j] =
                        CatchResult(isCancelled, IF isCancelled THEN CancelError ELSE err)]
    /\ proc' = [proc EXCEPT ![j] = "none"]
    /\ currentFFmpegProcess' = clearActiveProcess
    /\ pc' = [pc EXCEPT ![j] = "done"]
    /\ UNCHANGED <<isCancelled, normalizeAudio, stderrScript, stderrPos, startTime,
                   silenceRanges, thrown, progress, tempDir, outputFile,
                   cancelRequested, builtRanges, encodedRanges, removeFailed>>
    /\ history' = Logged(j, <<"error:detect", "completed">>)
    /\ UNCHANGED <<hasAudio, overlapped, pureVars, detVars, filVars, pgVars>>

\* The encode or normalize-only process creates and fills the output file.
EngineWritesOutput(j) ==
    /\ pc[j] \in {"normalizing", "encoding"}
    /\ proc[j] = "running"
    /\ outputFile[j] = "absent"
    /\ outputFile' = [outputFile EXCEPT ![j] = "partial"]
    /\ UNCHANGED <<isCancelled, currentFFmpegProcess, jobVars, tempDir,
                   cancelRequested, builtRanges, encodedRanges, removeFailed>>
    /\ UNCHANGED <<hasAudio, overlapped, history, pureVars, detVars, filVars, pgVars>>

\* normalizeAudioOnly's .on('progress'), lines 440-457.
NormalizeProgress(j) ==
    /\ pc[j] = "normalizing"
    /\ proc[j] # "none"
    /\ \E pv \in EnginePercents :
          IF isCancelled \/ NormalizePercent(pv) = None
          THEN UNCHANGED progress
          ELSE progress' = [progress EXCEPT ![j] =
                               [phase |-> "nosilence", percent |-> NormalizePercent(pv)[1]]]
    /\ UNCHANGED <<isCancelled, currentFFmpegProcess, pc, normalizeAudio, proc,
                   stderrScript, stderrPos, startTime, silenceRanges, thrown, result,
                   tempDir, outputFile, cancelRequested, builtRanges, encodedRanges,
                   removeFailed>>
    /\ UNCHANGED <<hasAudio, overlapped, history, pureVars, detVars, filVars, pgVars>>

\* normalizeAudioOnly's .on('end'), lines 458-462, then lines 682-684.
NormalizeEnd(j) ==
    /\ pc[j] = "normalizing"
    /\ proc[j] # "none"
    /\ proc' = [proc EXCEPT ![j] = "none"]
    /\ currentFFmpegProcess' = clearActiveProcess
    /\ outputFile' = [outputFile EXCEPT ![j] = "complete"]
    /\ progress' = [progress EXCEPT ![j] = [phase |-> "nosilence", percent |-> 100]]
    /\ result' = [result EXCEPT ![j] = "success"]
    /\ pc' = [pc EXCEPT ![j] = "done"]
    /\ UNCHANGED <<isCancelled, normalizeAudio, stderrScript, stderrPos, startTime,
                   silenceRanges, thrown, tempDir, cancelRequested, builtRanges,
                   encodedRanges, removeFailed>>
    /\ history' = Logged(j, <<"end:normalize", "completed">>)
    /\ UNCHANGED <<hasAudio, overlapped, pureVars, detVars, filVars, pgVars>>

\* normalizeAudioOnly's .on('error'), lines 463-467, then the catch.
NormalizeError(j) ==
    /\ pc[j] = "normalizing"
    /\ proc[j] # "none"
    /\ \E err \in EngineErrors :
          result' = [result EXCEPT ![j] =
                        CatchResult(isCancelled, IF isCancelled THEN CancelError ELSE err)]
    /\ proc' = [proc EXCEPT ![j] = "none"]
    /\ currentFFmpegProcess' = clearActiveProcess
    /\ pc' = [pc EXCEPT ![j] = "done"]
    /\ UNCHANGED <<isCancelled, normalizeAudio, stderrScript, stderrPos, startTime,
                   silenceRanges, thrown, progress, tempDir, outputFile,
                   cancelRequested, builtRanges, encodedRanges, removeFailed>>
    /\ history' = Logged(j, <<"error:normalize", "completed">>)
    /\ UNCHANGED <<hasAudio, overlapped, pureVars, detVars, filVars, pgVars>>

\* await fs.copyFile(...) returns, line 679, then lines 682-684.
CopyDone(j) ==
    /\ pc[j] = "copying"
    /\ outputFile' = [outputFile EXCEPT ![j] = "complete"]
    /\ progress' = [progress EXCEPT ![j] = [phase |-> "nosilence", percent |-> 100]]
    /\ result' = [result EXCEPT ![j] = "success"]
    /\ pc' = [pc EXCEPT ![j] = "done"]
    /\ UNCHANGED <<isCancelled, currentFFmpegProcess, normalizeAudio, proc, stderrScript,
                   stderrPos, startTime, silenceRanges, thrown, tempDir,
                   cancelRequested, builtRanges, encodedRanges, removeFailed>>
    /\ history' = Logged(j, <<"completed">>)
    /\ UNCHANGED <<hasAudio, overlapped, pureVars, detVars, filVars, pgVars>>

\* await fs.copyFile(...) throws, then the catch.
CopyFail(j) ==
    /\ pc[j] = "copying"
    /\ result' = [result EXCEPT ![j] = CatchResult(isCancelled, FsError)]
    /\ pc' = [pc EXCEPT ![j] = "done"]
    /\ UNCHANGED <<isCancelled, currentFFmpegProcess, normalizeAudio, proc, stderrScript,
                   stderrPos, startTime, silenceRanges, thrown, progress, tempDir,
                   outputFile, cancelRequested, builtRanges, encodedRanges, removeFailed>>
    /\ history' = Logged(j, <<"error:copy", "completed">>)
    /\ UNCHANGED <<hasAudio, overlapped, pureVars, detVars, filVars, pgVars>>

\* processVideo: getVideoMetadata resolves, lines 559-574 up to the first
\* await of writeFilterScript (fs.ensureDir).
ProbeDone(j) ==
    /\ pc[j] = "probing"
    /\ builtRanges' = [builtRanges EXCEPT ![j] =
                          Some(calculateTalkingRanges(silenceRanges[j], VideoDuration))]
    /\ pc' = [pc EXCEPT ![j] = "ensuringDir"]
    /\ UNCHANGED <<isCancelled, currentFFmpegProcess, normalizeAudio, proc, stderrScript,
                   stderrPos, startTime, silenceRanges, thrown, result, progress,
                   tempDir, outputFile, cancelRequested, encodedRanges, removeFailed>>
    /\ history' = Logged(j, <<"build">>)
    /\ UNCHANGED <<hasAudio, overlapped, pureVars, detVars, filVars, pgVars>>

\* processVideo: getVideoMetadata rejects, outside the try: straight to the catch.
ProbeFail(j) ==
    /\ pc[j] = "probing"
    /\ result' = [result EXCEPT ![j] = CatchResult(isCancelled, ProbeError)]
    /\ pc' = [pc EXCEPT ![j] = "done"]
    /\ UNCHANGED <<isCancelled, currentFFmpegProcess, normalizeAudio, proc, stderrScript,
                   stderrPos, startTime, silenceRanges, thrown, progress, tempDir,
                   outputFile, cancelRequested, builtRanges, encodedRanges, removeFailed>>
    /\ history' = Logged(j, <<"error:probe", "completed">>)
    /\ UNCHANGED <<hasAudio, overlapped, pureVars, detVars, filVars, pgVars>>

\* writeFilterScript: fs.ensureDir returns, line 336; fs.writeFile is issued.
EnsureDirDone(j) ==
    /\ pc[j] = "ensuringDir"
    /\ tempDir' = IF tempDir = "absent" THEN "empty" ELSE tempDir
    /\ pc' = [pc EXCEPT ![j] = "writingScript"]
    /\ UNCHANGED <<isCancelled, currentFFmpegProcess, normalizeAudio, proc, stderrScript,
                   stderrPos, startTime, silenceRanges, thrown, result, progress,
                   outputFile, cancelRequested, builtRanges, encodedRanges, removeFailed>>
    /\ history' = Logged(j, <<"ensureDir">>)
    /\ UNCHANGED <<hasAudio, overlapped, pureVars, detVars, filVars, pgVars>>

\* writeFilterScript: fs.writeFile returns or throws, line 338; then lines
\* 576-578 into processVideoWithFilter up to setActiveProcess(cmd), or, when
\* something was thrown, the finally's fs.remove(tempDir) is issued.
WriteScriptDone(j) ==
    /\ pc[j] = "writingScript"
    /\ IF tempDir = "absent"
       THEN \* the directory was removed meanwhile: ENOENT
            /\ thrown' = [thrown EXCEPT ![j] = Some(FsError)]
            /\ pc' = [pc EXCEPT ![j] = "removingTemp"]
            /\ UNCHANGED <<tempDir, proc, currentFFmpegProcess, encodedRanges, history>>
       ELSE /\ tempDir' = "script"
            /\ IF CancelledAtSpawn
               THEN \* line 348
                    /\ thrown' = [thrown EXCEPT ![j] = Some(CancelError)]
                    /\ pc' = [pc EXCEPT ![j] = "removingTemp"]
                    /\ history' = Logged(j, <<"writeScript">>)
                    /\ UNCHANGED <<proc, currentFFmpegProcess, encodedRanges>>
               ELSE /\ proc' = [proc EXCEPT ![j] = "running"]
                    /\ currentFFmpegProcess' = j
                    /\ encodedRanges' = [encodedRanges EXCEPT ![j] = builtRanges[j]]
                    /\ pc' = [pc EXCEPT ![j] = "encoding"]
                    /\ history' = Logged(j, <<"writeScript", "spawn:encode">>)
                    /\ UNCHANGED thrown
    /\ UNCHANGED <<isCancelled, normalizeAudio, stderrScript, stderrPos, startTime,
                   silenceRanges, result, progress, outputFile, cancelRequested,
                   builtRanges, removeFailed>>
    /\ UNCHANGED <<hasAudio, overlapped, pureVars, detVars, filVars, pgVars>>

\* processVideoWithFilter's .on('progress'), lines 377-399.
EncodeProgress(j) ==
    /\ pc[j] = "encoding"
    /\ proc[j] # "none"
    /\ \E timemark \in EncodeTimemarks :
          IF isCancelled
          THEN UNCHANGED progress
          ELSE progress' = [progress EXCEPT ![j] =
                  [phase |-> "encode",
                   percent |-> EncodePercent(timemark,
                       calculateDurationStats(silenceRanges[j], VideoDuration)
                           .expectedOutputDuration)]]
    /\ UNCHANGED <<isCancelled, currentFFmpegProcess, pc, normalizeAudio, proc,
                   stderrScript, stderrPos, startTime, silenceRanges, thrown, result,
                   tempDir, outputFile, cancelRequested, builtRanges, encodedRanges,
                   removeFailed>>
    /\ UNCHANGED <<hasAudio, overlapped, history, pureVars, detVars, filVars, pgVars>>

\* processVideoWithFilter's .on('end'), lines 400-405, then processVideo's
\* finally issues fs.remove(tempDir).  The engine cannot complete a filter
\* graph that concatenates no segment.
EncodeEnd(j) ==
    /\ pc[j] = "encoding"
    /\ proc[j] # "none"
    /\ encodedRanges[j] # Some(<<>>)
    /\ proc' = [proc EXCEPT ![j] = "none"]
    /\ outputFile' = [outputFile EXCEPT ![j] = "complete"]
    /\ IF isCancelled
       THEN /\ thrown' = [thrown EXCEPT ![j] = Some(CancelError)]
            /\ UNCHANGED <<currentFFmpegProcess, progress>>
       ELSE /\ currentFFmpegProcess' = clearActiveProcess
            /\ progress' = [progress EXCEPT ![j] = [phase |-> "encode", percent |-> 100]]
            /\ UNCHANGED thrown
    /\ pc' = [pc EXCEPT ![j] = "removingTemp"]
    /\ UNCHANGED <<isCancelled, normalizeAudio, stderrScript, stderrPos, startTime,
                   silenceRanges, result, tempDir, cancelRequested, builtRanges,
                   encodedRanges, removeFailed>>
    /\ history' = Logged(j, <<"end:encode">>)
    /\ UNCHANGED <<hasAudio, overlapped, pureVars, detVars, filVars, pgVars>>

\* processVideoWithFilter's .on('error'), lines 406-410, then the finally
\* issues fs.remove(tempDir).
EncodeError(j) ==
    /\ pc[j] = "encoding"
    /\ proc[j] # "none"
    /\ \E err \in EngineErrors :
          thrown' = [thrown EXCEPT ![j] = Some(IF isCancelled THEN CancelError ELSE err)]
    /\ proc' = [proc EXCEPT ![j] = "none"]
    /\ currentFFmpegProcess' = clearActiveProcess
    /\ pc' = [pc EXCEPT ![j] = "removingTemp"]
    /\ UNCHANGED <<isCancelled, normalizeAudio, stderrScript, stderrPos, startTime,
                   silenceRanges, result, progress, tempDir, outputFile,
                   cancelRequested, builtRanges, encodedRanges, removeFailed>>
    /\ history' = Logged(j, <<"error:encode">>)
    /\ UNCHANGED <<hasAudio, overlapped, pureVars, detVars, filVars, pgVars>>

\* processVideo's finally, lines 581-588: fs.remove(tempDir) returns (ok) or
\* throws (logged); then 'start-processing' from line 691, or its catch.
RemoveTempDone(j) ==
    /\ pc[j] = "removingTemp"
    /\ \E ok \in BOOLEAN :
          /\ tempDir' = IF ok THEN "absent" ELSE tempDir
          /\ removeFailed' = [removeFailed EXCEPT ![j] = ~ok]
    /\ IF thrown[j] = None
       THEN IF isCancelled
            THEN \* line 692: await fs.remove(outputFile)
                 /\ pc' = [pc EXCEPT ![j] = "removingOutput"]
                 /\ UNCHANGED <<result, history>>
            ELSE /\ result' = [result EXCEPT ![j] = "success"]
                 /\ pc' = [pc EXCEPT ![j] = "done"]
                 /\ history' = Logged(j, <<"completed">>)
       ELSE /\ result' = [result EXCEPT ![j] = CatchResult(isCancelled, thrown[j][1])]
            /\ pc' = [pc EXCEPT ![j] = "done"]
            /\ history' = Logged(j, <<"completed">>)
    /\ UNCHANGED <<isCancelled, currentFFmpegProcess, normalizeAudio, proc, stderrScript,
                   stderrPos, startTime, silenceRanges, thrown, progress, outputFile,
                   cancelRequested, builtRanges, encodedRanges>>
    /\ UNCHANGED <<hasAudio, overlapped, pureVars, detVars, filVars, pgVars>>

\* Lines 692-693: fs.remove(outputFile) returns, then the cancelled reply.
RemoveOutputDone(j) ==
    /\ pc[j] = "removingOutput"
    /\ outputFile' = [outputFile EXCEPT ![j] = "absent"]
    /\ result' = [result EXCEPT ![j] = "cancelled"]
    /\ pc' = [pc EXCEPT ![j] = "done"]
    /\ UNCHANGED <<isCancelled, currentFFmpegProcess, normalizeAudio, proc, stderrScript,
                   stderrPos, startTime, silenceRanges, thrown, progress, tempDir,
                   cancelRequested, builtRanges, encodedRanges, removeFailed>>
    /\ history' = Logged(j, <<"completed">>)
    /\ UNCHANGED <<hasAudio, overlapped, pureVars, detVars, filVars, pgVars>>

JobStep(j) ==
    \/ StartProcessing(j)
    \/ DetectStderr(j)
    \/ DetectEnd(j)
    \/ DetectError(j)
    \/ EngineWritesOutput(j)
    \/ NormalizeProgress(j)
    \/ NormalizeEnd(j)
    \/ NormalizeError(j)
    \/ CopyDone(j)
    \/ CopyFail(j)
    \/ ProbeDone(j)
    \/ ProbeFail(j)
    \/ EnsureDirDone(j)
    \/ WriteScriptDone(j)
    \/ EncodeProgress(j)
    \/ EncodeEnd(j)
    \/ EncodeError(j)
    \/ RemoveTempDone(j)
    \/ RemoveOutputDone(j)

NextCtl == CancelProcessing \/ \E j \in Jobs : JobStep(j)

(***************************************************************************)
(* The pure functions on drawn inputs, and the stderr handler fed alone.   *)
(***************************************************************************)
InitPureIdle ==
    /\ inRanges = <<>> /\ inDuration = 0 /\ outRanges = <<>> /\ called = FALSE

InitDetIdle ==
    /\ dPadding = 0 /\ dStartTime = None /\ dRanges = <<>> /\ dLine = OtherLine
    /\ dPrev = [startTime |-> None, silenceRanges |-> <<>>] /\ dCount = 0
    /\ dLines = <<>>

InitPgIdle ==
    /\ pgPhase = "encode" /\ pgRanges = <<>> /\ pgDuration = 0 /\ pgCancelled = FALSE
    /\ pgEvent = [timemark |-> NoTimemark, percent |-> None, dt |-> 0]
    /\ pgNow = 0 /\ pgSent = <<>> /\ pgCount = 0

InitFilIdle ==
    /\ fTalkingRanges = <<>> /\ fNormalizeAudio = FALSE /\ filterGraph = <<>>
    /\ outputOptions = <<>> /\ fpc = "idle"

\* The instants silence ranges are drawn from: gaps of 3 (dropped) and of
\* 497 and more (kept), ranges that touch 0, and ranges that reach past the
\* shortest durations.
TimeGrid == {0, 3, 500, 503, 1000, 1500, 2000}
Intervals == {r \in [start : TimeGrid, end : TimeGrid] : r.start < r.end}
SilenceLists == UNION {[1..n -> Intervals] : n \in 0..MaxSilences}
Durations == {0 - 100, 0, 5, 1500, 2000, 2003, 3000}

InitRanges ==
    /\ InitCtl /\ InitDetIdle /\ InitFilIdle /\ InitPgIdle
    /\ inRanges \in SilenceLists
    /\ inDuration \in Durations
    /\ outRanges = <<>>
    /\ called = FALSE

\* const talkingRanges = calculateTalkingRanges(silenceRanges, inputDuration)
CallCalculate ==
    /\ ~called
    /\ outRanges' = calculateTalkingRanges(inRanges, inDuration)
    /\ called' = TRUE
    /\ UNCHANGED <<inRanges, inDuration, ctlVars, detVars, filVars, pgVars>>

SpecRanges == InitRanges /\ [][CallCalculate]_vars

\* The markers the detection process prints, and the paddings of the job.
DetectTimes == {100, 200, 203, 211, 300}
DetectLines ==
    {StartLine(t) : t \in DetectTimes} \cup {EndLine(t) : t \in DetectTimes}
        \cup {OtherLine, StartLine(0 - 2),
              [silence_start |-> Some(211), silence_end |-> Some(300)]}
Paddings == {0, 5, 30}

InitDetect ==
    /\ InitCtl /\ InitPureIdle /\ InitFilIdle /\ InitPgIdle
    /\ dPadding \in Paddings
    /\ dStartTime = None
    /\ dRanges = <<>>
    /\ dLine = OtherLine
    /\ dPrev = [startTime |-> None, silenceRanges |-> <<>>]
    /\ dCount = 0
    /\ dLines = <<>>

\* One stderr line is delivered to the handler; dPrev and dLine remember the
\* state before it and the line itself.
FeedLine ==
    /\ dCount < MaxLines
    /\ \E line \in DetectLines :
          LET st == StderrHandler([startTime |-> dStartTime, silenceRanges |-> dRanges],
                                  line, dPadding)
          IN  /\ dStartTime' = st.startTime
              /\ dRanges' = st.silenceRanges
              /\ dLine' = line
              /\ dLines' = Append(dLines, line)
    /\ dPrev' = [startTime |-> dStartTime, silenceRanges |-> dRanges]
    /\ dCount' = dCount + 1
    /\ UNCHANGED <<dPadding, ctlVars, pureVars, filVars, pgVars>>

SpecDetect == InitDetect /\ [][FeedLine]_vars

\* The talking ranges the script is built from, as calculateTalkingRanges
\* leaves them: each longer than 0.05 s, in order, with a gap between two.
MaxSegments == 3
FilterTimes == {0, 123457, 250000, 312342, 400000, 523456, 600001}
KeepIntervals == {r \in [start : FilterTimes, end : FilterTimes] : r.start < r.end}
KeepLists ==
    {s \in UNION {[1..n -> KeepIntervals] : n \in 0..MaxSegments} :
        \A i \in 1..(Len(s) - 1) : s[i].end < s[i + 1].start}

InitFilter ==
    /\ InitCtl /\ InitPureIdle /\ InitDetIdle /\ InitPgIdle
    /\ fTalkingRanges \in KeepLists
    /\ fNormalizeAudio \in BOOLEAN
    /\ filterGraph = <<>>
    /\ outputOptions = <<>>
    /\ fpc = "idle"

\* const filterGraph = buildFilterScript(talkingRanges, normalizeAudio)
BuildScript ==
    /\ fpc = "idle"
    /\ filterGraph' = buildFilterScript(fTalkingRanges, fNormalizeAudio)
    /\ fpc' = "built"
    /\ UNCHANGED <<fTalkingRanges, fNormalizeAudio, outputOptions, ctlVars, pureVars, detVars, pgVars>>

\* processVideoWithFilter(..., filterScriptPath, ...): the encode is invoked
\* on the written script with its '-map' options.
InvokeEncode ==
    /\ fpc = "built"
    /\ outputOptions' = OutputMaps
    /\ fpc' = "encoding"
    /\ UNCHANGED <<fTalkingRanges, fNormalizeAudio, filterGraph, ctlVars, pureVars, detVars, pgVars>>

NextFilter == BuildScript \/ InvokeEncode

SpecFilter == InitFilter /\ [][NextFilter]_vars

\* The 'progress' handlers alone: the silence ranges and input duration of
\* the job, then the engine's progress events one by one.  The inputs are a
\* job with one silence, one with two, and two whose detection reported a
\* last silence that ends after the probed duration of the input, so that
\* the silences sum to that duration and to more than it.
MaxEvents == 2
ProgressInputs ==
    { [ranges |-> <<[start |-> 5, end |-> 95]>>, duration |-> 100],
      [ranges |-> <<[start |-> 5, end |-> 45], [start |-> 65, end |-> 95]>>, duration |-> 100],
      [ranges |-> <<[start |-> 5, end |-> 45], [start |-> 65, end |-> 125]>>, duration |-> 100],
      [ranges |-> <<[start |-> 5, end |-> 45], [start |-> 65, end |-> 135]>>, duration |-> 100] }
\* ms between two events of the engine
ProgressDelays == {10, 150}
EncodeEvents ==
    [timemark : {NoTimemark, BadTimemark, Timemark(0), Timemark(20)},
     percent : {None, Some(40)}, dt : ProgressDelays]
NormalizeEvents ==
    [timemark : {NoTimemark}, percent : EnginePercents, dt : ProgressDelays]

InitProgress ==
    /\ InitCtl /\ InitPureIdle /\ InitDetIdle /\ InitFilIdle
    /\ pgPhase \in {"encode", "normalize"}
    /\ \E input \in ProgressInputs :
          IF pgPhase = "encode"
          THEN pgRanges = input.ranges /\ pgDuration = input.duration
          ELSE pgRanges = <<>> /\ pgDuration = input.duration
    /\ pgCancelled \in BOOLEAN
    /\ pgEvent = [timemark |-> NoTimemark, percent |-> None, dt |-> 0]
    /\ pgNow = 0
    /\ pgSent = <<>>
    /\ pgCount = 0

\* processVideoWithFilter's .on('progress'), lines 377-399, with
\* expectedDuration = stats.expectedOutputDuration of line 578.
EncodeProgressEvent ==
    /\ pgPhase = "encode"
    /\ pgCount < MaxEvents
    /\ \E ev \in EncodeEvents :
          /\ pgEvent' = ev
          /\ pgNow' = pgNow + ev.dt
          /\ pgSent' =
                IF pgCancelled THEN pgSent
                ELSE Append(pgSent,
                       [percent |-> EncodePercent(ev.timemark,
                                       calculateDurationStats(pgRanges, pgDuration)
                                           .expectedOutputDuration),
                        at |-> pgNow + ev.dt])
    /\ pgCount' = pgCount + 1
    /\ UNCHANGED <<pgPhase, pgRanges, pgDuration, pgCancelled, ctlVars, pureVars, detVars, filVars>>

\* normalizeAudioOnly's .on('progress'), lines 440-457.
NormalizeProgressEvent ==
    /\ pgPhase = "normalize"
    /\ pgCount < MaxEvents
    /\ \E ev \in NormalizeEvents :
          /\ pgEvent' = ev
          /\ pgNow' = pgNow + ev.dt
          /\ pgSent' =
                IF pgCancelled \/ NormalizePercent(ev.percent) = None THEN pgSent
                ELSE Append(pgSent, [percent |-> NormalizePercent(ev.percent)[1],
                                     at |-> pgNow + ev.dt])
    /\ pgCount' = pgCount + 1
    /\ UNCHANGED <<pgPhase, pgRanges, pgDuration, pgCancelled, ctlVars, pureVars, detVars, filVars>>

NextProgress == EncodeProgressEvent \/ NormalizeProgressEvent

SpecProgress == InitProgress /\ [][NextProgress]_vars

Init == InitCtl /\ InitPureIdle /\ InitDetIdle /\ InitFilIdle /\ InitPgIdle

Next == NextCtl

Spec == Init /\ [][Next]_vars

\* The events the job waits for: the terminal event of its running (or
\* killed) process, and the return of its pending file operation.
Delivery(j) ==
    \/ DetectEnd(j) \/ DetectError(j)
    \/ NormalizeEnd(j) \/ NormalizeError(j)
    \/ CopyDone(j) \/ CopyFail(j)
    \/ ProbeDone(j) \/ ProbeFail(j)
    \/ EnsureDirDone(j) \/ WriteScriptDone(j)
    \/ EncodeEnd(j) \/ EncodeError(j)
    \/ RemoveTempDone(j) \/ RemoveOutputDone(j)

\* Every process eventually delivers 'end' or 'error' and every file
\* operation eventually returns; the event loop then runs the handler.
SpecLive == Init /\ [][Next]_vars /\ \A j \in Jobs : WF_vars(Delivery(j))

(***************************************************************************)
(* PROPERTIES                                                              *)
(***************************************************************************)
Max(a, b) == IF a > b THEN a ELSE b

SumDurations(ranges) == SumSeq([i \in 1..Len(ranges) |-> ranges[i].end - ranges[i].start])

\* Two ranges share a stretch of positive length.
Overlap(a, b) == Max(a.start, b.start) < Min(a.end, b.end)

\* Each range starts at or after the end of the one before it, and later.
Increasing(ranges) ==
    \A i \in 2..Len(ranges) :
        /\ ranges[i].start >= ranges[i - 1].end
        /\ ranges[i].start > ranges[i - 1].start

SortedByStart(ranges) ==
    \A i \in 2..Len(ranges) : ranges[i - 1].start <= ranges[i].start

\* Neither the starts nor the ends decrease along the list.
Chronological(ranges) ==
    \A i \in 2..Len(ranges) :
        ranges[i - 1].start <= ranges[i].start /\ ranges[i - 1].end <= ranges[i].end

\* Each range starts at or after the end of the one before it.
Disjoint(ranges) ==
    \A i \in 2..Len(ranges) : ranges[i - 1].end <= ranges[i].start

\* The stretches of [0, duration] between consecutive silence ranges.
GapBefore(ranges, i) == ranges[i].start - (IF i = 1 THEN 0 ELSE ranges[i - 1].end)
GapAfter(ranges, duration) ==
    duration - (IF ranges = <<>> THEN 0 ELSE ranges[Len(ranges)].end)
Dropped(g) == IF g > 0 /\ g <= MIN_SEGMENT_DURATION THEN g ELSE 0
DroppedTotal(ranges, duration) ==
    SumSeq([i \in 1..Len(ranges) |-> Dropped(GapBefore(ranges, i))])
        + Dropped(GapAfter(ranges, duration))

\* C1: a job during which cancellation was requested ends with the result
\* {success:false, cancelled:true}, never with success.
C1_CancelRequestedEndsCancelled ==
    \A j \in Jobs : (pc[j] = "done" /\ cancelRequested[j]) => result[j] = "cancelled"

\* C2: when a job whose encode process was launched ends as cancelled, no
\* output file, partial or complete, is left at its destination path.
C2_CancelledEncodeLeavesNoOutput ==
    \A j \in Jobs :
        (result[j] = "cancelled" /\ encodedRanges[j] # None) => outputFile[j] = "absent"

\* C3: at the step in which a job that entered processVideo's try reports its
\* terminal result, the temp directory does not exist, unless its removal threw.
C3_TempDirGoneAtResult ==
    [][\A j \in Jobs :
          (pc[j] \in {"removingTemp", "removingOutput"} /\ pc'[j] = "done"
              /\ ~removeFailed'[j])
          => tempDir' = "absent"]_vars

\* C4: the external processes of two jobs never run at the same time.
C4_OneProcessAtATime ==
    Cardinality({j \in Jobs : proc[j] = "running"}) <= 1

\* C5 (as stated): for silence lists in any order the keep ranges returned by
\* calculateTalkingRanges are increasing and pairwise non-overlapping.
C5_IncreasingForAnyOrder ==
    called => Increasing(outRanges)

\* C5 (amended): for silence lists ordered by start, overlapping and nested
\* ones included, the keep ranges are increasing and pairwise non-overlapping.
C5_IncreasingForSortedStarts ==
    (called /\ SortedByStart(inRanges)) => Increasing(outRanges)

\* C5 witness: a sorted list with a nested range gave two or more keep ranges.
C5_Witness ==
    /\ called /\ SortedByStart(inRanges) /\ Len(outRanges) >= 2
    /\ \E i \in 2..Len(inRanges) : inRanges[i].end < inRanges[i - 1].end

\* C6 (as stated): whatever the order or nesting of the silence ranges, no
\* keep range shares positive-length time with an input silence range.
C6_NoKeepInsideSilence ==
    called =>
        \A k \in 1..Len(outRanges), s \in 1..Len(inRanges) :
            ~Overlap(outRanges[k], inRanges[s])

\* C6 (amended): when neither the starts nor the ends of the silence ranges
\* decrease along the list (they may overlap), no keep range shares
\* positive-length time with an input silence range.
C6_NoKeepInsideChronologicalSilence ==
    (called /\ Chronological(inRanges)) =>
        \A k \in 1..Len(outRanges), s \in 1..Len(inRanges) :
            ~Overlap(outRanges[k], inRanges[s])

\* C6 witness: two overlapping silence ranges in chronological order, with
\* keep ranges on both sides.
C6_Witness ==
    /\ called /\ Chronological(inRanges) /\ Len(outRanges) >= 2
    /\ \E i \in 2..Len(inRanges) :
          /\ inRanges[i - 1].start < inRanges[i].start
          /\ inRanges[i].start < inRanges[i - 1].end
          /\ inRanges[i - 1].end < inRanges[i].end

\* C7 (as stated, on positive durations): for every silence list, keep
\* durations plus silence durations are at most the duration, and the
\* shortfall is the total length of the gaps dropped for being no longer
\* than the minimum.
C7_DurationsAddUp ==
    (called /\ inDuration > 0) =>
        LET stats == calculateDurationStats(inRanges, inDuration)
            total == SumDurations(outRanges) + stats.totalSilenceDuration
        IN  /\ total <= inDuration
            /\ inDuration - total = DroppedTotal(inRanges, inDuration)

\* C7 (amended): the same, for silence lists that are chronological and
\* non-overlapping and lie within [0, duration], with duration >= 0.
C7_DurationsAddUpForDisjointInside ==
    (/\ called /\ inDuration >= 0 /\ Disjoint(inRanges)
     /\ \A i \in 1..Len(inRanges) : inRanges[i].end <= inDuration) =>
        LET stats == calculateDurationStats(inRanges, inDuration)
            total == SumDurations(outRanges) + stats.totalSilenceDuration
        IN  /\ total <= inDuration
            /\ inDuration - total = DroppedTotal(inRanges, inDuration)

\* C7 witness: a disjoint list inside the video with a dropped gap between
\* two silences and a kept range.
C7_Witness ==
    /\ called /\ inDuration > 0 /\ Disjoint(inRanges) /\ Len(inRanges) >= 2
    /\ \A i \in 1..Len(inRanges) : inRanges[i].end <= inDuration
    /\ \E i \in 2..Len(inRanges) : Dropped(GapBefore(inRanges, i)) > 0
    /\ outRanges # <<>>
    /\ SumDurations(outRanges) + SumDurations(inRanges) < inDuration

\* The start that is pending when the last line's silence_end is handled: the
\* line's own silence_start if it carries one, else the one pending before.
PendingAtEnd ==
    IF dLine.silence_start # None /\ dLine.silence_start[1] >= 0
    THEN dLine.silence_start
    ELSE dPrev.startTime

\* C8: when a silence_end value T arrives while a start S is pending, the
\* range {S + padding, T - padding} is appended if and only if
\* (T - padding) - (S + padding) > 0.05, and the pending start is cleared
\* either way; with padding 0.05, 2.0 / 2.03 appends nothing and 2.0 / 3.0
\* appends {2.05, 2.95}.
C8_EndAppendsIffLongEnough ==
    (dCount > 0 /\ dLine.silence_end # None /\ PendingAtEnd # None) =>
        LET S == PendingAtEnd[1]
            T == dLine.silence_end[1]
        IN  /\ dStartTime = None
            /\ dRanges =
                  IF (T - dPadding) - (S + dPadding) > 5
                  THEN Append(dPrev.silenceRanges,
                              [start |-> S + dPadding, end |-> T - dPadding])
                  ELSE dPrev.silenceRanges
            /\ (dPadding = 5 /\ S = 200 /\ T = 203) => dRanges = dPrev.silenceRanges
            /\ (dPadding = 5 /\ S = 200 /\ T = 300) =>
                  /\ Len(dRanges) = Len(dPrev.silenceRanges) + 1
                  /\ dRanges[Len(dRanges)] = [start |-> 205, end |-> 295]

\* C8 witness: with padding 0.05 and 2.0 pending, the end 3.0 was handled
\* after an earlier end, 2.03, had been dropped.
C8_Witness ==
    /\ dPadding = 5 /\ dCount = 4
    /\ dPrev.startTime = Some(200) /\ dLine = EndLine(300)
    /\ dPrev.silenceRanges = <<>>
    /\ dRanges # <<>>

\* C9: within the detect phase and within the encode phase the percent sent
\* on the 'progress' channel never decreases, and the first percent of a
\* new phase is 0.
C9_ProgressMonotoneInPhase ==
    [][\A j \in Jobs :
          /\ (progress'[j].phase = progress[j].phase
                 /\ progress[j].phase \in {"detect", "encode"})
             => progress'[j].percent >= progress[j].percent
          /\ (progress'[j].phase # progress[j].phase
                 /\ progress'[j].phase \in {"detect", "encode"})
             => progress'[j].percent = 0]_vars

\* C10: neither buildFilterScript nor the encode process is ever given an
\* empty list of keep ranges.
C10_NoEmptyKeepListBuiltOrEncoded ==
    \A j \in Jobs : builtRanges[j] # Some(<<>>) /\ encodedRanges[j] # Some(<<>>)

\* C11: when a job whose encode process was launched ends with a failure
\* result (an error that no cancellation caused), no output file, partial or
\* complete, is left at its destination path.
C11_FailedEncodeLeavesNoOutput ==
    \A j \in Jobs :
        (result[j] = "error" /\ encodedRanges[j] # None) => outputFile[j] = "absent"

\* C12: for every silence list, calculateTalkingRanges called with a
\* duration of 0 or less returns the empty list.
C12_NonPositiveDurationGivesEmpty ==
    (called /\ inDuration <= 0) => outRanges = <<>>

\* Where an event stands in a job's history (0 when it is not there), and
\* how often it occurs.
Pos(h, ev) == IF \E i \in 1..Len(h) : h[i] = ev
              THEN CHOOSE i \in 1..Len(h) : h[i] = ev /\ \A k \in 1..(i - 1) : h[k] # ev
              ELSE 0
Has(h, ev) == Pos(h, ev) > 0
Count(h, ev) == Cardinality({i \in 1..Len(h) : h[i] = ev})

\* C13: a job whose probe of the input failed never launched the detection
\* process.
C13_ProbeFailureBeforeDetection ==
    \A j \in Jobs : Has(history[j], "error:probe") => ~Has(history[j], "spawn:detect")

\* C14: for an input without an audio stream the detection process is not
\* launched.
C14_NoAudioSkipsDetection ==
    \A j \in Jobs : ~hasAudio[j] => ~Has(history[j], "spawn:detect")

\* The step delivers the 'error' event of job j's process.
ErrorEventOf(j) ==
    /\ Len(history'[j]) > Len(history[j])
    /\ history'[j][Len(history[j]) + 1] \in {"error:detect", "error:normalize", "error:encode"}

\* C15: the 'error' event of a process that a cancellation request killed is
\* reported as {success:false, cancelled:true}: the handler rejects with the
\* cancellation, and a result replied in the same step is the cancelled one.
C15_KilledProcessReportsCancelled ==
    [][\A j \in Jobs :
          (proc[j] = "killed" /\ ErrorEventOf(j))
          => /\ pc'[j] = "done" => result'[j] = "cancelled"
             /\ pc'[j] # "done" => thrown'[j] = Some(CancelError)]_vars

\* C16: a job's encode process is spawned only after its detection process
\* delivered 'end', on the complete silence list of that process; the two
\* are never running at the same time.
C16_EncodeAfterDetectionEnd ==
    \A j \in Jobs :
        Has(history[j], "spawn:encode") =>
            /\ Has(history[j], "end:detect")
            /\ Pos(history[j], "spawn:detect") < Pos(history[j], "end:detect")
            /\ Pos(history[j], "end:detect") < Pos(history[j], "spawn:encode")
            /\ silenceRanges[j] = detectSilence(stderrScript[j], PaddingDuration)

\* C16 witness: an encode process is running on a non-empty silence list.
C16_Witness ==
    \E j \in Jobs :
        /\ pc[j] = "encoding" /\ proc[j] = "running"
        /\ Has(history[j], "spawn:encode") /\ silenceRanges[j] # <<>>

\* Detection of job j completed with no silence and no cancellation was
\* requested during the job.
NoSilenceCase(j) ==
    /\ Has(history[j], "end:detect") /\ silenceRanges[j] = <<>> /\ ~cancelRequested[j]

\* What C17 says the job does on the way: one normalize-only process or a
\* copy, and nothing of the filter-script path.
NoSilencePath(j) ==
    /\ IF normalizeAudio[j]
       THEN Count(history[j], "spawn:normalize") = 1 /\ ~Has(history[j], "copy")
       ELSE Has(history[j], "copy") /\ ~Has(history[j], "spawn:normalize")
    /\ \A ev \in {"probe", "build", "ensureDir", "writeScript", "spawn:encode"} :
          ~Has(history[j], ev)
    /\ builtRanges[j] = None /\ encodedRanges[j] = None

\* C17 (as stated): after a detection that found no silence, with no
\* cancellation, the job runs one normalize-only process or copies the input,
\* builds and writes no filter script, creates no temp directory, and ends
\* with success.
C17_NoSilenceEndsInSuccess ==
    \A j \in Jobs :
        NoSilenceCase(j) =>
            /\ NoSilencePath(j)
            /\ pc[j] = "done" => result[j] = "success"

\* C17 (amended): the same path; the job ends with success when the copy or
\* the normalize-only pass succeeds, and without success when it fails.
C17_NoSilenceEndsAsItsPassEnds ==
    \A j \in Jobs :
        NoSilenceCase(j) =>
            /\ NoSilencePath(j)
            /\ pc[j] = "done" =>
                  (result[j] = "success"
                      <=> ~(Has(history[j], "error:copy")
                                \/ Has(history[j], "error:normalize")))

\* C17 witness: both kinds of job ended with success, one after a
\* normalize-only pass and one after a copy.
C17_Witness ==
    \E j, k \in Jobs :
        /\ NoSilenceCase(j) /\ normalizeAudio[j] /\ result[j] = "success"
        /\ Has(history[j], "end:normalize")
        /\ NoSilenceCase(k) /\ ~normalizeAudio[k] /\ result[k] = "success"
        /\ outputFile[k] = "complete"

\* A fatal condition met job j: one of its processes emitted 'error', the
\* probe failed, or a file operation threw.
FatalCondition(j) ==
    \/ \E ev \in {"error:detect", "error:normalize", "error:encode", "error:probe",
                  "error:copy"} : Has(history[j], ev)
    \/ thrown[j] = Some(FsError)

\* C18: a job replies 'completed' at most once, and a job that met a fatal
\* condition with no cancellation requested replies it exactly once, with
\* success false and an error message.
C18_OneCompletedAndFatalIsError ==
    \A j \in Jobs :
        /\ Count(history[j], "completed") <= 1
        /\ (pc[j] = "done" /\ FatalCondition(j) /\ ~cancelRequested[j])
           => (Count(history[j], "completed") = 1 /\ result[j] = "error")

C20_DetectionErrorDiscardsRanges ==
    \A j \in Jobs :
        Has(history[j], "error:detect") =>
            /\ history[j] = <<"spawn:detect", "error:detect", "completed">>
            /\ pc[j] = "done" /\ result[j] \in {"error", "cancelled"}
            /\ builtRanges[j] = None /\ encodedRanges[j] = None
            /\ outputFile[j] = "absent"

\* C20 witness: the detection process failed after a silence range had been
\* gathered, and the job replied the error.
C20_Witness ==
    \E j \in Jobs :
        /\ Has(history[j], "error:detect") /\ silenceRanges[j] # <<>>
        /\ ~cancelRequested[j] /\ result[j] = "error"

\* A line that carries only a silence_start the pattern matches, and one that
\* carries only a silence_end it matches.
IsStartOnly(line) ==
    /\ line.silence_start # None /\ line.silence_start[1] >= 0 /\ line.silence_end = None
IsEndOnly(line) ==
    /\ line.silence_end # None /\ line.silence_end[1] >= 0
    /\ (line.silence_start = None \/ line.silence_start[1] < 0)

\* The last line is a silence_end that closes two starts S1 (line i) and S2
\* (line m) with no silence_end between them.
TwoStartsThenEnd(i, m) ==
    LET n == Len(dLines)
    IN  /\ i < m /\ m < n
        /\ IsStartOnly(dLines[i]) /\ IsStartOnly(dLines[m])
        /\ IsEndOnly(dLines[n]) /\ dLines[n].silence_start = None
        /\ \A k \in (i + 1)..(n - 1) : k # m => dLines[k] = OtherLine

\* C21: after silence_start S1, then silence_start S2, then silence_end T
\* with no silence_end between, the range computed is {S2 + padding,
\* T - padding}; nothing is computed from S1 and the pending start is cleared.
C21_LastStartWins ==
    \A i, m \in 1..Len(dLines) :
        TwoStartsThenEnd(i, m) =>
            LET S2 == dLines[m].silence_start[1]
                T == dLines[Len(dLines)].silence_end[1]
                before == detectSilence(SubSeq(dLines, 1, i - 1), dPadding)
            IN  /\ dStartTime = None
                /\ dRanges =
                      IF (T - dPadding) - (S2 + dPadding) > MIN_SEGMENT_DURATION
                      THEN Append(before, [start |-> S2 + dPadding, end |-> T - dPadding])
                      ELSE before

\* C21 witness: S1 = 1.00 and S2 = 2.00 were followed by the end 3.00, and
\* the range starts from 2.00.
C21_Witness ==
    \E i, m \in 1..Len(dLines) :
        /\ TwoStartsThenEnd(i, m)
        /\ dLines[i].silence_start[1] = 100 /\ dLines[m].silence_start[1] = 200
        /\ dLines[Len(dLines)].silence_end[1] = 300
        /\ dRanges # <<>> /\ dRanges[Len(dRanges)].start = 200 + dPadding

\* C22: a silence_end that arrives while no start is pending appends nothing
\* and leaves the pending start absent and the list of ranges as it was.
C22_EndWithoutStartIgnored ==
    (dCount > 0 /\ IsEndOnly(dLine) /\ dPrev.startTime = None) =>
        /\ dRanges = dPrev.silenceRanges
        /\ dStartTime = None

\* C22 witness: an end arrived with no start pending after a range had been
\* gathered.
C22_Witness ==
    /\ dCount > 0 /\ IsEndOnly(dLine) /\ dPrev.startTime = None
    /\ dPrev.silenceRanges # <<>> /\ dLine.silence_end[1] = 300

\* The markers of a stream in the order the handler reads them: within a
\* line the silence_start comes before the silence_end.
RECURSIVE Markers(_)
Markers(lines) ==
    IF lines = <<>> THEN <<>>
    ELSE (IF Head(lines).silence_start # None
          THEN <<[kind |-> "start", t |-> Head(lines).silence_start[1]]>> ELSE <<>>)
         \o (IF Head(lines).silence_end # None
             THEN <<[kind |-> "end", t |-> Head(lines).silence_end[1]]>> ELSE <<>>)
         \o Markers(Tail(lines))

\* Starts and ends alternate from a start, each start is before its end and
\* each end is no later than the next start.
ChronologicalMarkers(ms) ==
    \A i \in 1..Len(ms) :
        /\ ms[i].kind = (IF i % 2 = 1 THEN "start" ELSE "end")
        /\ (i > 1 /\ ms[i].kind = "end") => ms[i - 1].t < ms[i].t
        /\ (i > 1 /\ ms[i].kind = "start") => ms[i - 1].t <= ms[i].t

\* The padded silences of the start/end pairs of ms, in order, that are
\* longer than the minimum; a start the pattern does not match (a negative
\* number) gives nothing, nor does a last start without an end.
RECURSIVE PairedSilences(_, _)
PairedSilences(ms, padding) ==
    IF Len(ms) < 2 THEN <<>>
    ELSE (IF ms[1].t >= 0 /\ (ms[2].t - padding) - (ms[1].t + padding) > MIN_SEGMENT_DURATION
          THEN <<[start |-> ms[1].t + padding, end |-> ms[2].t - padding]>>
          ELSE <<>>)
         \o PairedSilences(SubSeq(ms, 3, Len(ms)), padding)

\* C23: for markers in chronological order and padding >= 0, the ranges
\* gathered are those of the start/end pairs in arrival order; each has
\* 0 <= start < end, they are strictly increasing by start and do not
\* overlap, and a start left pending has given no range.
C23_ChronologicalMarkersGiveOrderedRanges ==
    (ChronologicalMarkers(Markers(dLines)) /\ dPadding >= 0) =>
        /\ dRanges = PairedSilences(Markers(dLines), dPadding)
        /\ \A i \in 1..Len(dRanges) : 0 <= dRanges[i].start /\ dRanges[i].start < dRanges[i].end
        /\ \A i \in 2..Len(dRanges) :
              /\ dRanges[i - 1].start < dRanges[i].start
              /\ dRanges[i - 1].end <= dRanges[i].start

\* C23 witness: two padded ranges were gathered from chronological markers
\* and a third start is still pending.
C23_Witness ==
    /\ ChronologicalMarkers(Markers(dLines)) /\ dPadding > 0
    /\ Len(dRanges) = 2 /\ dStartTime # None

\* C24: every keep range returned by calculateTalkingRanges has start < end
\* and is longer than MIN_SEGMENT_DURATION, whatever the silence list and the
\* duration.
C24_KeepRangesLongerThanMinimum ==
    called =>
        \A i \in 1..Len(outRanges) :
            /\ outRanges[i].start < outRanges[i].end
            /\ outRanges[i].end - outRanges[i].start > MIN_SEGMENT_DURATION

\* C24 witness: a call kept a range and dropped a trailing fragment of 0.03 s.
C24_Witness ==
    /\ called /\ inRanges # <<>> /\ Len(outRanges) >= 1
    /\ inDuration - inRanges[Len(inRanges)].end = 3
    /\ outRanges[Len(outRanges)].end < inDuration

\* C25 (as stated): for the empty silence list the result is the one keep
\* range [0, totalDuration].
C25_EmptyListKeepsWholeVideo ==
    (called /\ inRanges = <<>>) =>
        outRanges = <<[start |-> 0, end |-> inDuration]>>

\* C25 (amended): for the empty silence list the result is the one keep
\* range [0, totalDuration] when totalDuration > MIN_SEGMENT_DURATION, and
\* the empty list otherwise.
C25_EmptyListKeepsWholeVideoIfLongEnough ==
    (called /\ inRanges = <<>>) =>
        outRanges = IF inDuration > MIN_SEGMENT_DURATION
                    THEN <<[start |-> 0, end |-> inDuration]>>
                    ELSE <<>>

\* C25 witness: the empty list was given with a duration of 15 s.
C25_Witness ==
    /\ called /\ inRanges = <<>> /\ inDuration = 1500
    /\ outRanges = <<[start |-> 0, end |-> 1500]>>

\* The call was made on the single silence [s, e], inside [0, totalDuration].
SingleSilenceInside ==
    /\ called /\ Len(inRanges) = 1
    /\ 0 <= inRanges[1].start /\ inRanges[1].end <= inDuration

\* C26 (as stated): for a single silence [s, e] inside [0, totalDuration]:
\* with s = 0 the result is [[e, totalDuration]]; with e = totalDuration it
\* is [[0, s]]; when it is interior with both remaining parts longer than
\* the minimum it is [[0, s], [e, totalDuration]].
C26_SingleSilenceSplits ==
    SingleSilenceInside =>
        LET s == inRanges[1].start
            e == inRanges[1].end
        IN  /\ s = 0 => outRanges = <<[start |-> e, end |-> inDuration]>>
            /\ e = inDuration => outRanges = <<[start |-> 0, end |-> s]>>
            /\ (s > MIN_SEGMENT_DURATION /\ inDuration - e > MIN_SEGMENT_DURATION)
               => outRanges = <<[start |-> 0, end |-> s], [start |-> e, end |-> inDuration]>>

\* C26 (amended): with s = 0 the result is [[e, totalDuration]] when that
\* part is longer than the minimum and empty otherwise; with
\* e = totalDuration it is [[0, s]] when that part is longer than the minimum
\* and empty otherwise; the interior case is as stated.
C26_SingleSilenceSplitsWhatIsLongEnough ==
    SingleSilenceInside =>
        LET s == inRanges[1].start
            e == inRanges[1].end
            head == IF s > MIN_SEGMENT_DURATION THEN <<[start |-> 0, end |-> s]>> ELSE <<>>
            tail == IF inDuration - e > MIN_SEGMENT_DURATION
                    THEN <<[start |-> e, end |-> inDuration]>> ELSE <<>>
        IN  /\ s = 0 => outRanges = tail
            /\ e = inDuration => outRanges = head
            /\ (s > MIN_SEGMENT_DURATION /\ inDuration - e > MIN_SEGMENT_DURATION)
               => outRanges = <<[start |-> 0, end |-> s], [start |-> e, end |-> inDuration]>>

\* C26 witness: the interior silence [5.00, 10.00] of a 20 s video gave the
\* two keep ranges around it.
C26_Witness ==
    /\ SingleSilenceInside /\ inDuration = 2000
    /\ inRanges[1] = [start |-> 500, end |-> 1000]
    /\ outRanges = <<[start |-> 0, end |-> 500], [start |-> 1000, end |-> 2000]>>


(***************************************************************************)
(* The filter script                                                       *)
(***************************************************************************)
\* Where the script has a filter of that name: <<chain, position in the chain>>.
StagesOf(script, name) ==
    UNION {{<<c, f>> : f \in {g \in DOMAIN script[c].filters :
                                 script[c].filters[g].name = name}} :
           c \in DOMAIN script}

\* How many times the script writes the pad.
Definitions(script, pad) ==
    Cardinality(UNION {{<<c, o>> : o \in {q \in DOMAIN script[c].outs :
                                             script[c].outs[q] = pad}} :
                       c \in DOMAIN script})

\* The chains that read the pad.
ReadersOf(script, pad) ==
    {c \in DOMAIN script : \E q \in DOMAIN script[c].ins : script[c].ins[q] = pad}

\* C27: for a non-empty list of talking ranges, the script built with
\* normalizeAudio false has no loudnorm filter; the script built with
\* normalizeAudio true has exactly one, alone in a chain that reads the audio
\* pad the concat writes, and the video pad the concat writes is read by one
\* chain only, whose single filter is copy.
C27_LoudnormOnlyWhenNormalizing ==
    (fpc # "idle" /\ fTalkingRanges # <<>>) =>
        LET stages == StagesOf(filterGraph, "loudnorm")
            concats == StagesOf(filterGraph, "concat")
        IN  IF ~fNormalizeAudio
            THEN stages = {}
            ELSE /\ Cardinality(stages) = 1
                 /\ Cardinality(concats) = 1
                 /\ \E s \in stages, c \in concats :
                       LET norm == filterGraph[s[1]]
                           cat == filterGraph[c[1]]
                       IN  /\ Len(cat.outs) = 2
                           /\ norm.ins = <<cat.outs[2]>>
                           /\ Len(norm.filters) = 1
                           /\ ReadersOf(filterGraph, cat.outs[2]) = {s[1]}
                           /\ Cardinality(ReadersOf(filterGraph, cat.outs[1])) = 1
                           /\ \A v \in ReadersOf(filterGraph, cat.outs[1]) :
                                 /\ filterGraph[v].ins = <<cat.outs[1]>>
                                 /\ Len(filterGraph[v].filters) = 1
                                 /\ filterGraph[v].filters[1].name = "copy"

C27_Witness ==
    /\ fpc # "idle" /\ fNormalizeAudio /\ Len(fTalkingRanges) = 2
    /\ StagesOf(filterGraph, "loudnorm") # {}

\* C28: for n >= 1 talking ranges and either value of normalizeAudio, the
\* script has n trim and n atrim filters; for each index k exactly one chain
\* writes v{k}, it reads [0:v] and starts with a trim whose start and end
\* are those of range k as printed to four decimals, and the same for a{k},
\* [0:a] and atrim; the one concat reads v0 a0 v1 a1 ... in index order and
\* declares n segments.
C28_OneTrimPairPerRangeInOrder ==
    (fpc # "idle" /\ Len(fTalkingRanges) >= 1) =>
        LET n == Len(fTalkingRanges)
            Writers(pad) == {c \in DOMAIN filterGraph : filterGraph[c].outs = <<pad>>}
            Trims(k, padName, input, filterName) ==
                /\ Cardinality(Writers(IndexedPad(padName, k))) = 1
                /\ Definitions(filterGraph, IndexedPad(padName, k)) = 1
                /\ \A c \in Writers(IndexedPad(padName, k)) :
                      /\ filterGraph[c].ins = <<Pad(input)>>
                      /\ filterGraph[c].filters[1].name = filterName
                      /\ 10 * filterGraph[c].filters[1].start - fTalkingRanges[k + 1].start \in (0 - 5)..5
                      /\ 10 * filterGraph[c].filters[1].end - fTalkingRanges[k + 1].end \in (0 - 5)..5
        IN  /\ Cardinality(StagesOf(filterGraph, "trim")) = n
            /\ Cardinality(StagesOf(filterGraph, "atrim")) = n
            /\ \A k \in 0..(n - 1) : Trims(k, "v", "0:v", "trim") /\ Trims(k, "a", "0:a", "atrim")
            /\ Cardinality(StagesOf(filterGraph, "concat")) = 1
            /\ \A c \in StagesOf(filterGraph, "concat") :
                  /\ filterGraph[c[1]].filters[c[2]].n = n
                  /\ Len(filterGraph[c[1]].ins) = 2 * n
                  /\ \A k \in 0..(n - 1) :
                        /\ filterGraph[c[1]].ins[2 * k + 1] = IndexedPad("v", k)
                        /\ filterGraph[c[1]].ins[2 * k + 2] = IndexedPad("a", k)

C28_Witness ==
    /\ fpc # "idle" /\ Len(fTalkingRanges) = 3
    /\ fTalkingRanges[2].end % 10 # 0
    /\ Cardinality(StagesOf(filterGraph, "trim")) = 3

\* C29: with and without normalization the script writes [outv] once and
\* [outa] once, and the pads the encode invocation maps are [outv] and
\* [outa], those two and no other.
C29_FinalPadsDefinedOnceAndMapped ==
    /\ fpc # "idle" =>
          /\ Definitions(filterGraph, Pad("outv")) = 1
          /\ Definitions(filterGraph, Pad("outa")) = 1
    /\ fpc = "encoding" =>
          /\ Len(outputOptions) = 2
          /\ {outputOptions[i] : i \in DOMAIN outputOptions} = {Pad("outv"), Pad("outa")}
          /\ \A i \in DOMAIN outputOptions : Definitions(filterGraph, outputOptions[i]) = 1

C29_Witness ==
    /\ fpc = "encoding" /\ fNormalizeAudio /\ Len(fTalkingRanges) >= 1
    /\ outputOptions = <<Pad("outv"), Pad("outa")>>
    /\ Definitions(filterGraph, Pad("tmpv")) = 1


\* C30: while the process of a phase (detection, normalization, encode) has
\* not delivered its 'end', the last progress sample of the job is not 100:
\* 100 is sent by an 'end' handler only, never by a 'progress' handler.
C30_NoHundredBeforeEnd ==
    \A j \in Jobs :
        pc[j] \in {"detecting", "normalizing", "encoding"} => progress[j].percent # 100


(***************************************************************************)
(* The progress samples                                                    *)
(***************************************************************************)
Abs(x) == IF x < 0 THEN 0 - x ELSE x

\* C31: every progress sample sent has a percent between 0 and 100,
\* whatever the time marker of the event and whatever the expected output
\* duration of the job, zero and negative included.
C31_PercentWithinZeroAndHundred ==
    \A i \in DOMAIN pgSent : pgSent[i].percent >= 0 /\ pgSent[i].percent <= 100

\* C32: a sample is sent only if at least 100 ms passed since the sample
\* sent before it or its percent differs from that one's by at least 1.
C32_SamplesThrottled ==
    \A i \in DOMAIN pgSent :
        i > 1 => \/ pgSent[i].at - pgSent[i - 1].at >= 100
                 \/ Abs(pgSent[i].percent - pgSent[i - 1].percent) >= 1

\* C33: in the encode phase the sample for an event with a parseable time
\* marker is computed from elapsed time over the expected duration, and the
\* sample for an event with no parseable time marker that carries the
\* engine's own percent is that percent (at most 100), not 0.
C33_EnginePercentIsTheFallback ==
    (pgPhase = "encode" /\ pgCount > 0 /\ ~pgCancelled) =>
        LET sample == pgSent[Len(pgSent)]
            expected == pgDuration - SumDurations(pgRanges)
        IN  /\ (pgEvent.timemark.kind = "time" /\ expected > 0)
                  => sample.percent = Min(99, RoundDiv(pgEvent.timemark.t * 100, expected))
            /\ (pgEvent.timemark.kind # "time" /\ pgEvent.percent # None)
                  => sample.percent = Min(100, pgEvent.percent[1])


(***************************************************************************)
(* Cancellation and the jobs that follow it                                *)
(***************************************************************************)
\* The job spawns an external process in this step.
Spawns(j) ==
    /\ Len(history'[j]) > Len(history[j])
    /\ \E i \in (Len(history[j]) + 1)..Len(history'[j]) :
          history'[j][i] \in {"spawn:detect", "spawn:normalize", "spawn:encode"}

\* C34: a job during which cancellation was requested spawns no process in
\* any step taken while the flag is still set, that is, while no later
\* 'start-processing' has reset it.
C34_NoSpawnAfterCancel ==
    [][\A j \in Jobs : (cancelRequested[j] /\ isCancelled) => ~Spawns(j)]_vars

\* C34 witness: a cancellation arrived while the job was writing its filter
\* script; the script was written and the job went to its clean-up with the
\* cancellation thrown, no encode spawned.
C34_Witness ==
    \E j \in Jobs :
        /\ cancelRequested[j] /\ isCancelled
        /\ pc[j] = "removingTemp"
        /\ Has(history[j], "writeScript") /\ ~Has(history[j], "spawn:encode")
        /\ thrown[j] = Some(CancelError)


\* C35: when the terminal event of a process that a cancellation killed is
\* delivered after a later 'start-processing' has reset the flag, the job is
\* still reported as cancelled: a result replied in that step is the
\* cancelled one, and what is thrown towards the catch is the cancellation.
C35_CancelledStaysCancelledAcrossNewStart ==
    [][\A j \in Jobs :
          (proc[j] = "killed" /\ ~isCancelled /\ proc'[j] = "none")
          => /\ pc'[j] = "done" => result'[j] = "cancelled"
             /\ pc'[j] = "removingTemp" => thrown'[j] = Some(CancelError)]_vars

\* The job started last: jobs are started in the order of their numbers.
LatestJob == CHOOSE j \in Jobs : pc[j] # "idle" /\ \A k \in Jobs : k > j => pc[k] = "idle"

\* C36: while a process of the job started last is running, the
\* active-process handle names it.
C36_HandleNamesProcessOfLatestJob ==
    (\E j \in Jobs : pc[j] # "idle")
        => (proc[LatestJob] = "running" => currentFFmpegProcess = LatestJob)

\* C37: a job is reported as cancelled only if a cancellation request
\* arrived while it was active.
C37_CancelledOnlyOnRequest ==
    \A j \in Jobs : result[j] = "cancelled" => cancelRequested[j]

\* C38: a cancellation request that arrives while no job is active does
\* nothing to the next job.  'start-processing' sets the flag to false,
\* spawns the detection process and records its handle, and the job starts
\* with no cancellation requested; from then on the flag is false at every
\* step of the job until a request arrives during it, so no test of the flag
\* by the job sees the earlier request.
C38_StaleCancelHasNoEffect ==
    /\ [](\A j \in Jobs : (Active(j) /\ ~cancelRequested[j]) => ~isCancelled)
    /\ [][\A j \in Jobs :
             (pc[j] = "idle" /\ pc'[j] # "idle")
             => /\ isCancelled' = FALSE
                /\ Spawns(j) /\ proc'[j] = "running" /\ currentFFmpegProcess' = j
                /\ pc'[j] = "detecting"
                /\ ~cancelRequested'[j]]_vars

\* C38 witness: the first job has replied its result with no cancellation
\* requested during it, a request arrived afterwards while no job was active
\* (the flag is set, no handle), and the second job is still to be started.
C38_Witness ==
    /\ pc[1] = "done" /\ ~cancelRequested[1] /\ result[1] = "success"
    /\ pc[2] = "idle"
    /\ isCancelled /\ currentFFmpegProcess = 0

\* C39: every keep range calculateTalkingRanges returns lies within the
\* video: 0 <= start < end <= videoDuration.
C39_KeepRangesWithinVideo ==
    called => \A i \in DOMAIN outRanges :
                 /\ 0 <= outRanges[i].start
                 /\ outRanges[i].start < outRanges[i].end
                 /\ outRanges[i].end <= inDuration


\* C40: every started job eventually replies 'completed' (a job never goes
\* back from its reply, so from some point on every job that was started has
\* replied, once), and a process is sent the termination signal by a
\* 'cancel-processing' only.
C40_StartedJobCompletes ==
    /\ <>[](\A j \in Jobs :
               pc[j] # "idle" => (pc[j] = "done" /\ Count(history[j], "completed") = 1))
    /\ [][\A j \in Jobs : (proc[j] = "running" /\ proc'[j] = "killed")
                             => (isCancelled' /\ currentFFmpegProcess = j)]_vars

\* C40 witness: a job whose encode process was killed by a cancellation has
\* replied its result.
C40_Witness ==
    \E j \in Jobs :
        /\ pc[j] = "done" /\ cancelRequested[j]
        /\ Has(history[j], "spawn:encode") /\ Has(history[j], "error:encode")
        /\ Count(history[j], "completed") = 1

====
